---- MODULE Spec2Model ----
(***************************************************************************)
(* A model of swa.sh: the push-based Stream (Stream.create in src/index.js *)
(* and class Stream in src/unnamed/part_002), the merge combinator         *)
(* Stream.merge, and the SwashDictaphone component's event log and         *)
(* transcript handling (src/unnamed/part_002), the recognition event       *)
(* source, the voice activity detector (src/unnamed/part_003) and the      *)
(* capture coordinator (src/unnamed/part_001).                             *)
(*                                                                         *)
(* The specifications share the variables:                                 *)
(*   Spec       one stream, one producer, one consumer                     *)
(*   MergeSpec  Stream.merge over NumSources source iterators              *)
(*   DictSpec   the dictaphone: live events, the persisted log, reloads    *)
(*   TimingSpec one session of the dictaphone at finely graded gaps        *)
(*   RecogSpec  the recognition event source                               *)
(*   GradeSpec  confidenceGrade                                            *)
(*   VadSpec    the voice activity detector                                *)
(*   ListenSpec the capture coordinator driven by the detector             *)
(***************************************************************************)
EXTENDS Integers, Sequences, FiniteSets, TLC

(***************************************************************************)
(* Bounds of the model.                                                    *)
(***************************************************************************)
\* number of values the producer pushes (the values are 1..MaxPush, in push order)
MaxPush == 3
\* number of next() calls the consumer issues
MaxNext == 4
\* number of source iterators given to Stream.merge
NumSources == 3
\* number of values one source produces (source i produces 10*i + 1, 10*i + 2, ...)
MaxItems == 2
\* number of next() calls the consumer of the merged sequence issues
MaxPulls == 4
\* number of live events the dictaphone handles
MaxEvents == 2
\* number of times the page is loaded again
MaxReloads == 1
\* number of live events the dictaphone handles when the gaps are finely graded
MaxTimed == 3
\* number of native events the recognizer fires
MaxNative == 2
\* number of results in a native result batch
MaxResults == 2
\* the largest confidence, in thousandths
MaxConfidence == 1000
\* audio frames the processor is given
MaxFrames == 8

VARIABLES
  \* ---- one stream --------------------------------------------------------
  impl,          \* "create" (Stream.create, index.js) or "class" (class Stream, part_002)
  buffer,        \* the buffered values
  promise,       \* the stream's `promise`: a promise id, or 0 for null/undefined
  resolve,       \* the promise whose resolve/reject functions the stream holds, 0 if none
  promiseState,  \* promise id -> [st, val]: every promise the stream created
  awaiting,      \* the promise the consumer awaits, 0 when it awaits none
  received,      \* what the consumer's awaits produced, in order
  hist,          \* history of the calls made (bookkeeping for the properties)
  \* ---- Stream.merge -----------------------------------------------------
  iterators,     \* source -> [buffer, inflight, produced, ended]: the source streams
  promises,      \* merge's `promises` array: entries [st, val, source]
  gen,           \* the generator: "start", "await", "yield" or "done"
  raceWinner,    \* index in promises of the entry Promise.race settled with, 0 if none yet
  source,        \* merge's `source` of the value it yielded last
  pulling,       \* the consumer of the merged sequence has a next() outstanding
  out,           \* what the consumer of the merged sequence received, in order
  mhist,         \* history of the merge (bookkeeping for the properties)
  \* ---- SwashDictaphone --------------------------------------------------
  storage,       \* localStorage[this.db]: [present, events]
  final,         \* the children of .final: utterances and delay markers
  interim,       \* the text of .interim
  aside,         \* the text of the hidden aside: the last timestamp, NoTime for ''
  now,           \* the clock, in half seconds
  dpc,           \* "new": constructed; "live": connectedCallback is in its loop
  dhist,         \* history of the component (bookkeeping for the properties)
  \* ---- speechRecognitionEventStream -------------------------------------
  recognition,   \* the native recognizer: [starts, syms]
  calls,         \* what the handlers have called on the stream: next(event), fail(error)
  closed,        \* the consumer has called return() on the stream
  rhist,         \* history of the event source (bookkeeping for the properties)
  \* ---- confidenceGrade --------------------------------------------------
  grading,       \* [confidence, grade]: result[0].confidence, in thousandths, and
                 \* what confidenceGrade has returned for it ("none" before the call)
  \* ---- RmsProcessor -----------------------------------------------------
  vad,           \* the processor: [sampleRate, parameter, silentChunks, silence]
  port,          \* the messages posted on this.port that no handler has taken yet
  vhist,         \* history of the processor (bookkeeping for the properties)
  \* ---- listen and transcribe -------------------------------------------
  listening,     \* the locals of listen(): [recorder, p]
  div,           \* the paragraphs appended to the transcriptionResult element
  fetches,       \* the calls of transcribe that await their response: [segment, p]
  lhist          \* history of the coordinator (bookkeeping for the properties)

streamVars == <<impl, buffer, promise, resolve, promiseState, awaiting, received, hist>>

mergeVars == <<iterators, promises, gen, raceWinner, source, pulling, out, mhist>>

dictVars == <<storage, final, interim, aside, now, dpc, dhist>>

recogVars == <<recognition, calls, closed, rhist>>

gradeVars == <<grading>>

vadVars == <<vad, port, vhist>>

listenVars == <<listening, div, fetches, lhist>>

\* the variables of the components outside the stream, the merge, the dictaphone
\* and the recognition event source
audioVars == <<gradeVars, vadVars, listenVars>>

vars == <<streamVars, mergeVars, dictVars, recogVars, audioVars>>

(***************************************************************************)
(* Promises.  A promise is pending or settled; settling a settled promise  *)
(* does nothing.                                                           *)
(***************************************************************************)
Pending == [st |-> "pending", val |-> 0]

Settled(st, val) == [st |-> st, val |-> val]

\* resolve(...) / reject(...) of promise id: no effect once settled
Settle(ps, id, st, val) ==
  IF ps[id].st = "pending" THEN [ps EXCEPT ![id] = Settled(st, val)] ELSE ps

\* the value a `new Promise(...)` gets in the table
NewId(ps) == Len(ps) + 1

(***************************************************************************)
(* Stream: construction.                                                   *)
(***************************************************************************)
\* Stream.create: `let promise = new Promise(...)` with its resolve/reject kept
CreateInit ==
  /\ impl = "create"
  /\ buffer = <<>>
  /\ promiseState = <<Pending>>
  /\ promise = 1
  /\ resolve = 1

\* class Stream: the constructor only sets this.buffer = []
ClassInit ==
  /\ impl = "class"
  /\ buffer = <<>>
  /\ promiseState = <<>>
  /\ promise = 0
  /\ resolve = 0

HistInit ==
  [ pushCount   |-> 0,      \* values pushed so far
    nextCount   |-> 0,      \* next() calls issued so far
    prePushes   |-> 0,      \* values pushed before the first next() call
    stopCalled  |-> FALSE,
    failCalled  |-> FALSE,
    nextAtStop  |-> 0,      \* nextCount when stop() was called
    nextAtFail  |-> 0,      \* nextCount when fail() was called
    flightAtStop |-> FALSE, \* a next() was unresolved when stop() was called
    flightAtFail |-> FALSE, \* a next() was unresolved when fail() was called
    threw       |-> FALSE ] \* a producer call threw a TypeError

StreamInit ==
  /\ (CreateInit \/ ClassInit)
  /\ awaiting = 0
  /\ received = <<>>
  /\ hist = HistInit

(***************************************************************************)
(* Stream: the producer's capabilities.                                    *)
(***************************************************************************)
\* a shift that leaves the first element in the buffer
BufferShiftKeeps(buf) == buf

\* buffer.shift(): what is left of the buffer
BufferShift(buf) == Tail(buf)

\* buffer.push(value)
BufferPush(buf, value) == Append(buf, value)

\* next(value), the producer's push
next(value) ==
  /\ IF promise # 0
       THEN /\ promiseState' = Settle(promiseState, resolve, "value", value)
            /\ promise' = 0
            /\ UNCHANGED buffer
       ELSE /\ buffer' = BufferPush(buffer, value)
            /\ UNCHANGED <<promiseState, promise>>
  /\ hist' = [hist EXCEPT !.pushCount = @ + 1,
                          !.prePushes = IF hist.nextCount = 0 THEN @ + 1 ELSE @]
  /\ UNCHANGED <<impl, resolve, awaiting, received>>

\* a next() is in flight: the consumer awaits a promise that is still pending
InFlight == awaiting # 0 /\ promiseState[awaiting].st = "pending"

\* stop(): resolve({ done: true }); a TypeError when no resolve function exists yet
stop ==
  /\ IF resolve = 0
       THEN /\ hist' = [hist EXCEPT !.threw = TRUE, !.stopCalled = TRUE,
                                    !.nextAtStop = hist.nextCount,
                                    !.flightAtStop = InFlight]
            /\ UNCHANGED promiseState
       ELSE /\ promiseState' = Settle(promiseState, resolve, "done", 0)
            /\ hist' = [hist EXCEPT !.stopCalled = TRUE,
                                    !.nextAtStop = hist.nextCount,
                                    !.flightAtStop = InFlight]
  /\ UNCHANGED <<impl, buffer, promise, resolve, awaiting, received>>

\* fail(error): reject(error); a TypeError when no reject function exists yet
fail(error) ==
  /\ IF resolve = 0
       THEN /\ hist' = [hist EXCEPT !.threw = TRUE, !.failCalled = TRUE,
                                    !.nextAtFail = hist.nextCount,
                                    !.flightAtFail = InFlight]
            /\ UNCHANGED promiseState
       ELSE /\ promiseState' = Settle(promiseState, resolve, "error", error)
            /\ hist' = [hist EXCEPT !.failCalled = TRUE,
                                    !.nextAtFail = hist.nextCount,
                                    !.flightAtFail = InFlight]
  /\ UNCHANGED <<impl, buffer, promise, resolve, awaiting, received>>

(***************************************************************************)
(* Stream: the consumer.                                                   *)
(***************************************************************************)
\* the iterator's next(): a buffered value, else the pending promise (made if absent)
IteratorNext ==
  /\ hist' = [hist EXCEPT !.nextCount = @ + 1]
  /\ IF Len(buffer) > 0
       THEN /\ promiseState' = Append(promiseState, Settled("value", Head(buffer)))
            /\ buffer' = BufferShift(buffer)
            /\ awaiting' = NewId(promiseState)
            /\ UNCHANGED <<promise, resolve>>
       ELSE IF promise = 0
         THEN /\ promiseState' = Append(promiseState, Pending)
              /\ promise' = NewId(promiseState)
              /\ resolve' = NewId(promiseState)
              /\ awaiting' = NewId(promiseState)
              /\ UNCHANGED buffer
         ELSE /\ awaiting' = promise
              /\ UNCHANGED <<buffer, promise, resolve, promiseState>>
  /\ UNCHANGED <<impl, received>>

\* the consumer's await completes with the settled promise's result
Await ==
  /\ awaiting # 0
  /\ promiseState[awaiting].st # "pending"
  /\ received' = Append(received, [kind |-> promiseState[awaiting].st,
                                   val  |-> promiseState[awaiting].val])
  /\ awaiting' = 0
  /\ UNCHANGED <<impl, buffer, promise, resolve, promiseState, hist>>

(***************************************************************************)
(* Stream.merge.  The sources are Streams (class Stream) whose producers   *)
(* push values at any time and call stop() or fail() while a pull is in    *)
(* flight, which is when these calls take effect, and push nothing after.  *)
(* A source is [buffer, inflight, produced, ended]: its buffer, whether    *)
(* its promise is pending, the number of values pushed, and how it ended.  *)
(* An entry of `promises` is the promise                                   *)
(*   iterator.next().then(result => ({ ...result, source }))               *)
(* as [st, val, source]; st = "hole" is an empty slot of the array.        *)
(***************************************************************************)
Sources == 1..NumSources

Entry(st, val, src) == [st |-> st, val |-> val, source |-> src]

Hole == Entry("hole", 0, 0)

IteratorInit == [buffer |-> <<>>, inflight |-> FALSE, produced |-> 0, ended |-> "no"]

MergeHistInit ==
  [ settled      |-> <<>>,   \* the values, in the order their pull resolved
    doneSeen     |-> {},     \* the sources whose done result merge has read
    pulls        |-> 0,      \* next() calls on the merged sequence
    failed       |-> {} ]    \* the sources that failed

MergeInit ==
  /\ iterators = [i \in Sources |-> IteratorInit]
  /\ promises = <<>>
  /\ gen = "start"
  /\ raceWinner = 0
  /\ source = 0
  /\ pulling = FALSE
  /\ out = <<>>
  /\ mhist = MergeHistInit

Min(S) == CHOOSE x \in S : \A y \in S : x <= y

\* iterators[i].next().then(...): the entry the call gives
PullEntry(its, i) ==
  IF Len(its[i].buffer) > 0
    THEN Entry("value", Head(its[i].buffer), i)
    ELSE IF its[i].ended = "no" THEN Entry("pending", 0, i)
                                ELSE Entry(its[i].ended, 0, i)

\* iterators[i].next(): what the call leaves of the source
PullIterator(its, i) ==
  IF Len(its[i].buffer) > 0
    THEN [its EXCEPT ![i].buffer = Tail(@)]
    ELSE IF its[i].ended = "no" THEN [its EXCEPT ![i].inflight = TRUE] ELSE its

\* the values among the pulls of sources S that resolve at once, in source order
RECURSIVE ResolvedAtOnce(_, _)
ResolvedAtOnce(its, S) ==
  IF S = {} THEN <<>>
  ELSE LET i == Min(S)
           e == PullEntry(its, i)
       IN (IF e.st = "value" THEN <<e.val>> ELSE <<>>) \o ResolvedAtOnce(its, S \ {i})

\* Promise.race(promises), called when the entries `fresh` were only just made:
\* an entry settled before the call wins, the lowest index first; else the first
\* entry to settle, which among the fresh ones is the lowest index; else none yet
Race(ps, fresh) ==
  LET old == {j \in 1..Len(ps) : ps[j].st # "pending" /\ j \notin fresh}
      new == {j \in 1..Len(ps) : ps[j].st # "pending" /\ j \in fresh}
  IN IF old # {} THEN Min(old)
     ELSE IF new # {} THEN Min(new) ELSE 0

\* promises[k] = e, which lengthens the array (leaving holes) when k is past its end
SetAt(ps, k, e) ==
  IF k <= Len(ps) THEN [ps EXCEPT ![k] = e]
  ELSE ps \o [j \in 1..(k - Len(ps) - 1) |-> Hole] \o <<e>>

\* promises.splice(index, 1)
Splice(ps, index) ==
  [j \in 1..(Len(ps) - 1) |-> IF j < index THEN ps[j] ELSE ps[j + 1]]

\* promises.findIndex((_, i) => i === source): the index equal to source, 0 for -1
FindIndex(ps, src) == IF src <= Len(ps) THEN src ELSE 0

\* ---- the sources ---------------------------------------------------------
\* the producer of source i calls next(value), stop() or fail(error): the call
\* settles the pending promise and so the entries made from it; with no promise
\* pending a value is buffered.  Producers run as tasks of their own: once the
\* race has settled, the generator resumes (a microtask) before the next of them
Produce(i, item) ==
  LET waiting == {j \in 1..Len(promises) :
                     promises[j].source = i /\ promises[j].st = "pending"}
  IN
  /\ ~(gen = "await" /\ raceWinner # 0)
  /\ iterators[i].ended = "no"
  /\ IF iterators[i].inflight
       THEN /\ promises' = [j \in 1..Len(promises) |->
                              IF j \in waiting THEN Entry(item.kind, item.val, i)
                                               ELSE promises[j]]
            /\ iterators' = [iterators EXCEPT
                 ![i].inflight = FALSE,
                 ![i].produced = IF item.kind = "value" THEN @ + 1 ELSE @,
                 ![i].ended = IF item.kind = "value" THEN "no" ELSE item.kind]
            /\ raceWinner' = IF gen = "await" /\ raceWinner = 0 /\ waiting # {}
                               THEN Min(waiting) ELSE raceWinner
            /\ mhist' = [mhist EXCEPT
                 !.settled = IF item.kind = "value" THEN Append(@, item.val) ELSE @,
                 !.failed = IF item.kind = "error" THEN @ \cup {i} ELSE @]
       ELSE /\ iterators' = [iterators EXCEPT
                 ![i].buffer = Append(@, item.val),
                 ![i].produced = @ + 1]
            /\ UNCHANGED <<promises, raceWinner, mhist>>
  /\ UNCHANGED <<gen, source, pulling, out>>

SourceValue(i) ==
  /\ iterators[i].produced < MaxItems
  /\ Produce(i, [kind |-> "value", val |-> 10 * i + iterators[i].produced + 1])

SourceStop(i) ==
  /\ iterators[i].inflight
  /\ Produce(i, [kind |-> "done", val |-> 0])

SourceFail(i) ==
  /\ iterators[i].inflight
  /\ Produce(i, [kind |-> "error", val |-> i])

\* ---- the generator -------------------------------------------------------
\* the first next() on the merged sequence: iterators.map(...), then the race
MergeStart ==
  /\ gen = "start"
  /\ promises' = [i \in Sources |-> PullEntry(iterators, i)]
  /\ iterators' = [i \in Sources |-> PullIterator(iterators, i)[i]]
  /\ raceWinner' = Race(promises', Sources)
  /\ gen' = "await"
  /\ pulling' = TRUE
  /\ mhist' = [mhist EXCEPT !.pulls = @ + 1,
                            !.settled = @ \o ResolvedAtOnce(iterators, Sources)]
  /\ UNCHANGED <<source, out>>

\* next() after a yield: promises[source] = iterators[source].next().then(...),
\* then the loop's test and the race
MergeContinue ==
  /\ gen = "yield"
  /\ promises' = SetAt(promises, source, PullEntry(iterators, source))
  /\ iterators' = PullIterator(iterators, source)
  /\ raceWinner' = Race(promises', {source})
  /\ gen' = "await"
  /\ pulling' = TRUE
  /\ mhist' = [mhist EXCEPT !.pulls = @ + 1,
                            !.settled = @ \o ResolvedAtOnce(iterators, {source})]
  /\ UNCHANGED <<source, out>>

\* next() on the finished generator
MergeAfterEnd ==
  /\ gen = "done"
  /\ out' = Append(out, [kind |-> "done", val |-> 0])
  /\ mhist' = [mhist EXCEPT !.pulls = @ + 1]
  /\ UNCHANGED <<iterators, promises, gen, raceWinner, source, pulling>>

\* the consumer of the merged sequence may call next()
MayPull == ~pulling /\ mhist.pulls < MaxPulls

\* `await nextPromise` completes and the loop body runs up to the next await,
\* yield, return or throw
MergeResume ==
  /\ gen = "await"
  /\ raceWinner # 0
  /\ LET r == promises[raceWinner] IN
     CASE r.st \in {"error", "hole"} ->
            \* a rejected source, or destructuring undefined: the generator throws
            /\ gen' = "done"
            /\ out' = Append(out, [kind |-> "error", val |-> r.source])
            /\ pulling' = FALSE
            /\ raceWinner' = 0
            /\ UNCHANGED <<promises, source, mhist>>
       [] r.st = "done" ->
            LET index == FindIndex(promises, r.source)
                left  == IF index # 0 THEN Splice(promises, index) ELSE promises
            IN /\ promises' = left
               /\ mhist' = [mhist EXCEPT !.doneSeen = @ \cup {r.source}]
               /\ IF Len(left) > 0
                    THEN /\ raceWinner' = Race(left, {})
                         /\ UNCHANGED <<gen, out, pulling>>
                    ELSE /\ gen' = "done"
                         /\ out' = Append(out, [kind |-> "done", val |-> 0])
                         /\ pulling' = FALSE
                         /\ raceWinner' = 0
               /\ UNCHANGED source
       [] r.st = "value" ->
            /\ out' = Append(out, [kind |-> "value", val |-> r.val])
            /\ source' = r.source
            /\ gen' = "yield"
            /\ pulling' = FALSE
            /\ raceWinner' = 0
            /\ UNCHANGED <<promises, mhist>>
  /\ UNCHANGED iterators

(***************************************************************************)
(* SwashDictaphone (src/unnamed/part_002).  Text is a sequence of          *)
(* characters; a timestamp is a number of half seconds, so that a delay of *)
(* d half seconds is d / 2 seconds.  A field a JavaScript object lacks, or *)
(* holds undefined in, reads as Undefined.                                 *)
(***************************************************************************)
Undefined == "undefined"

NoTime == -1

\* the key of the command table in handleEvent
HardResetPlease ==
  <<"h","a","r","d"," ","r","e","s","e","t"," ","p","l","e","a","s","e">>

\* the same phrase as a recognizer may deliver it
HardResetShouted ==
  <<" ","H","a","r","d"," ","R","E","S","E","T"," ","p","l","e","a","s","e"," ">>

\* the phrase the specification names for the reset command
ResetBro == <<"r","e","s","e","t"," ","b","r","o">>

Transcripts == {<<"h","i">>, HardResetPlease, HardResetShouted, ResetBro}

Grades == {"A", "F"}

\* the time between two events, in half seconds: 0 s, 3 s, 20.5 s
Gaps == {0, 6, 41}

\* finely graded gaps, in half seconds: 0 s, 1 s, 3 s, 3.5 s, 20 s, 25 s, 60 s, 60.5 s
Delays == {0, 2, 6, 7, 40, 50, 120, 121}

\* String.prototype.toLowerCase, on the letters the transcripts use
LowerChar(c) ==
  CASE c = "H" -> "h" [] c = "R" -> "r" [] c = "E" -> "e"
    [] c = "S" -> "s" [] c = "T" -> "t" [] OTHER -> c

ToLowerCase(text) == [k \in 1..Len(text) |-> LowerChar(text[k])]

\* String.prototype.trim
RECURSIVE TrimStart(_)
TrimStart(text) ==
  IF text # <<>> /\ Head(text) = " " THEN TrimStart(Tail(text)) ELSE text

RECURSIVE TrimEnd(_)
TrimEnd(text) ==
  IF text # <<>> /\ text[Len(text)] = " "
    THEN TrimEnd(SubSeq(text, 1, Len(text) - 1)) ELSE text

Trim(text) == TrimEnd(TrimStart(text))

\* event.f of a JavaScript object
Get(event, f) == IF f \in DOMAIN event THEN event[f] ELSE Undefined

\* the events speechRecognitionEventStream pushes, stamped `timestamp`
ResultEvent(timestamp) == [type |-> "Result", timestamp |-> timestamp]

NoSpeechEvent(timestamp) == [type |-> "NoSpeech", timestamp |-> timestamp]

FinalTranscriptEvent(transcript, grade, timestamp, id) ==
  [type |-> "FinalTranscript", transcript |-> transcript, grade |-> grade,
   timestamp |-> timestamp, id |-> id]

InterimTranscriptEvent(transcript, timestamp, id) ==
  [type |-> "InterimTranscript", transcript |-> transcript, grade |-> Undefined,
   timestamp |-> timestamp, id |-> id]

\* a stringify that leaves the grade out of every event
StringifyEventNoGrade(event) == [f \in DOMAIN event \ {"grade"} |-> event[f]]

\* JSON.stringify of one event: a field holding undefined is left out (grade is
\* the one field an event may hold undefined in)
StringifyEvent(event) ==
  [f \in {g \in DOMAIN event : ~(g = "grade" /\ event[g] = Undefined)} |-> event[f]]

\* JSON.stringify(events); the text is represented by the array it denotes
JSONStringify(events) == [k \in 1..Len(events) |-> StringifyEvent(events[k])]

\* JSON.parse(localStorage.getItem(this.db) || '[]')
LoadEvents(store) == IF store.present THEN store.events ELSE <<>>

\* the state handleEvent works on
DictState(store, fin, inter, asd) ==
  [storage |-> store, final |-> fin, interim |-> inter, aside |-> asd]

\* saveEvent(event)
SaveEvent(st, event) ==
  [st EXCEPT !.storage =
     [present |-> TRUE,
      events |-> JSONStringify(LoadEvents(st.storage) \o <<event>>)]]

\* a reset that leaves the log in place
resetKeepsLog(st) == [st EXCEPT !.final = <<>>, !.interim = <<>>]

\* reset(): removeItem, and .final and .interim emptied
reset(st) ==
  [st EXCEPT !.storage = [present |-> FALSE, events |-> <<>>],
             !.final = <<>>,
             !.interim = <<>>]

\* this.$('.final > :last-child'): the selector without :not(.delay)
LastChild(fin) == fin # <<>>

\* this.$('.final > :not(.delay):last-child'): the last child is not a delay marker
LastIsNotDelay(fin) == fin # <<>> /\ fin[Len(fin)].kind = "utterance"

Utterance(event) ==
  [kind |-> "utterance", text |-> Get(event, "transcript"),
   grade |-> Get(event, "grade"), id |-> Get(event, "id")]

\* span.delay.dots with '.'.repeat(n)
Dots(n) == [kind |-> "dots", n |-> n]

\* div.delay, with the date and the time when dated
Divider(dated) == [kind |-> "divider", dated |-> dated]

\* insertDelay(timestamp).  With the aside empty, t is an Invalid Date and delay is
\* NaN: every comparison is false and '.'.repeat(NaN) is ''
insertDelay(st, timestamp) ==
  LET delay == timestamp - st.aside   \* in half seconds
  IN
  IF st.aside # NoTime /\ delay < 2 * 3
    THEN st
    ELSE
      LET marker ==
            IF st.aside # NoTime /\ delay > 2 * 20
              THEN Divider(delay > 2 * 60)
              ELSE Dots(IF st.aside = NoTime THEN 0 ELSE delay \div 2)
          fin == IF LastIsNotDelay(st.final) THEN Append(st.final, marker)
                                             ELSE st.final
      IN [st EXCEPT !.final = fin, !.aside = timestamp]

\* an interim chunk that replaces the text of .interim
InterimOverwrite(text, transcript) == transcript

\* this.$('.interim').textContent += event.transcript
InterimAppend(text, transcript) == text \o transcript

\* the handler handleEvent picks by event.type
ApplyEvent(st, event) ==
  CASE event.type = "Result" -> [st EXCEPT !.interim = <<>>]
    [] event.type = "FinalTranscript" ->
         IF ToLowerCase(Trim(event.transcript)) = HardResetPlease
           THEN reset(st)
           ELSE LET d == insertDelay(st, event.timestamp)
                IN [d EXCEPT !.final = Append(@, Utterance(event)),
                             !.interim = <<>>]
    [] event.type = "InterimTranscript" ->
         LET d == IF st.interim = <<>> THEN insertDelay(st, event.timestamp) ELSE st
         IN [d EXCEPT !.interim = InterimAppend(@, event.transcript)]
    [] OTHER -> st

\* a handleEvent that saves the event after its handler has run
HandleEventSaveLast(st, event, shouldSave) ==
  LET applied == ApplyEvent(st, event)
  IN IF shouldSave THEN SaveEvent(applied, event) ELSE applied

\* handleEvent(event, shouldSave): saveEvent first, then the handler
HandleEvent(st, event, shouldSave) ==
  ApplyEvent(IF shouldSave THEN SaveEvent(st, event) ELSE st, event)

\* a replay that saves the event it replays
ReplayEventSaving(st, event) == HandleEvent(st, event, TRUE)

\* event => this.handleEvent(event, false)
ReplayEvent(st, event) == HandleEvent(st, event, FALSE)

\* events.forEach(...) over the events loadAndHandleEvents has parsed
RECURSIVE HandleAll(_, _)
HandleAll(st, events) ==
  IF events = <<>> THEN st
  ELSE HandleAll(ReplayEvent(st, Head(events)), Tail(events))

\* the command table matches the event
IsCommand(event) ==
  /\ event.type = "FinalTranscript"
  /\ ToLowerCase(Trim(event.transcript)) = HardResetPlease

\* the handler of the event calls insertDelay: for an utterance that is no
\* command, and for an interim chunk when .interim is empty
CallsInsertDelay(inter, event) ==
  \/ event.type = "FinalTranscript" /\ ~IsCommand(event)
  \/ event.type = "InterimTranscript" /\ inter = <<>>

\* no live event
NoEvent == [type |-> "none"]

DictHistInit ==
  [ startup |-> <<>>,   \* the log the session found, emptied by a reset
    handled |-> <<>>,   \* the live events handled since the last reset
    events  |-> 0,      \* live events handled in all
    reloads |-> 0,
    last    |-> NoEvent ]   \* the event the last step handled live, if it did

\* the component's constructor: the template's empty .final, .interim and aside
Constructed ==
  /\ final = <<>>
  /\ interim = <<>>
  /\ aside = NoTime
  /\ dpc = "new"

DictInit ==
  /\ Constructed
  /\ storage = [present |-> FALSE, events |-> <<>>]
  /\ now = 0
  /\ dhist = DictHistInit

\* connectedCallback up to its loop: loadAndHandleEvents()
connectedCallback ==
  /\ dpc = "new"
  /\ LET st == HandleAll(DictState(storage, final, interim, aside),
                         LoadEvents(storage))
     IN /\ storage' = st.storage
        /\ final' = st.final
        /\ interim' = st.interim
        /\ aside' = st.aside
  /\ dpc' = "live"
  /\ dhist' = [dhist EXCEPT !.startup = LoadEvents(storage), !.handled = <<>>,
                            !.last = NoEvent]
  /\ UNCHANGED now

\* one turn of connectedCallback's loop: this.handleEvent(event, true)
Handle(event) ==
  /\ dpc = "live"
  /\ LET st == HandleEvent(DictState(storage, final, interim, aside), event, TRUE)
     IN /\ storage' = st.storage
        /\ final' = st.final
        /\ interim' = st.interim
        /\ aside' = st.aside
  /\ now' = event.timestamp
  /\ dhist' = [dhist EXCEPT
       !.events = @ + 1,
       !.last = event,
       !.startup = IF IsCommand(event) THEN <<>> ELSE @,
       !.handled = IF IsCommand(event) THEN <<>> ELSE Append(@, event)]
  /\ UNCHANGED dpc

Live(event) == dhist.events < MaxEvents /\ Handle(event)

LiveResult == \E gap \in Gaps : Live(ResultEvent(now + gap))

LiveNoSpeech == \E gap \in Gaps : Live(NoSpeechEvent(now + gap))

LiveFinalTranscript ==
  \E gap \in Gaps, transcript \in Transcripts, grade \in Grades :
    Live(FinalTranscriptEvent(transcript, grade, now + gap, dhist.events + 1))

LiveInterimTranscript ==
  \E gap \in Gaps, transcript \in Transcripts :
    Live(InterimTranscriptEvent(transcript, now + gap, dhist.events + 1))

\* the page is loaded again: a new component, the same localStorage
Reload ==
  /\ dpc = "live"
  /\ dhist.reloads < MaxReloads
  /\ final' = <<>>
  /\ interim' = <<>>
  /\ aside' = NoTime
  /\ dpc' = "new"
  /\ dhist' = [dhist EXCEPT !.reloads = @ + 1, !.last = NoEvent]
  /\ UNCHANGED <<storage, now>>

\* live events at finely graded gaps: an utterance, an interim chunk, the command
Timed(event) == dhist.events < MaxTimed /\ Handle(event)

TimedFinalTranscript ==
  \E gap \in Delays :
    Timed(FinalTranscriptEvent(<<"h","i">>, "A", now + gap, dhist.events + 1))

TimedInterimTranscript ==
  \E gap \in Delays :
    Timed(InterimTranscriptEvent(<<"h","i">>, now + gap, dhist.events + 1))

TimedCommand ==
  \E gap \in Delays :
    Timed(FinalTranscriptEvent(HardResetPlease, "A", now + gap, dhist.events + 1))

(***************************************************************************)
(* RmsProcessor (src/unnamed/part_003), the voice activity detector.  A    *)
(* level (a threshold, a root mean square) is a number of twentieths, so   *)
(* that 0.1 is 2; the energy of a frame, the sum of the squares of all its *)
(* samples, is a number of four-hundredths, the square of a twentieth.     *)
(***************************************************************************)
\* parameterDescriptors: defaultValue: 0.1
defaultValue == 2

\* values of the threshold parameter within minValue: 0 and maxValue: 1
Thresholds == {0, 2, 10}

\* globalThis.sampleRate, in frames per second
SampleRates == {3, 4, 5}

\* input[0].length, the number of samples of a channel of one frame
FrameSize == 2

\* the inputs of process: [energy, channels]: the sum over all channels of the
\* squares of the samples, and input.length
Frames ==
  { [energy |-> 0,   channels |-> 1],     \* silence
    [energy |-> 1,   channels |-> 1],     \* root mean square 0.05
    [energy |-> 4,   channels |-> 1],     \* root mean square 0.1
    [energy |-> 6,   channels |-> 2],     \* root mean square 0.087, two channels
    [energy |-> 100, channels |-> 1] }    \* root mean square 0.5

\* the threshold parameter of the node: the value it was configured with, or
\* the descriptor's defaultValue
Parameters ==
  {[configured |-> FALSE, value |-> defaultValue]} \cup
  {[configured |-> TRUE, value |-> threshold] : threshold \in Thresholds}

\* the constructor
NewRmsProcessor(sampleRate, parameter) ==
  [ sampleRate   |-> sampleRate,
    parameter    |-> parameter,
    silentChunks |-> 0,
    silence      |-> TRUE ]

VadHistInit ==
  [ frames |-> 0,       \* frames processed
    run    |-> 0,       \* the frames at or below parameter.value that end the input
    posted |-> <<>> ]   \* every message posted so far

\* the processor has been constructed and given no frame
VadIdle ==
  /\ vad = NewRmsProcessor(3, [configured |-> FALSE, value |-> defaultValue])
  /\ port = <<>>
  /\ vhist = VadHistInit

\* parameters.threshold[0] || 0.1
Threshold(parameter) == IF parameter.value = 0 THEN 2 ELSE parameter.value

\* rms <= threshold, where rms = Math.sqrt(rms / input.length) and threshold >= 0
RmsAtMost(frame, threshold) ==
  frame.energy <= threshold * threshold * frame.channels

\* Math.ceil(1 * theSampleRate / input[0].length)
SilenceWindow == (vad.sampleRate + FrameSize - 1) \div FrameSize

\* the variant of Stops that does not test this.silence
StopsWhileSilent(silentChunks, silence) == silentChunks >= SilenceWindow

\* silentChunks >= Math.ceil(...) and !this.silence
Stops(silentChunks, silence) == silentChunks >= SilenceWindow /\ ~silence

\* process(inputs, _outputs, parameters)
process(frame) ==
  LET threshold == Threshold(vad.parameter)
      quiet == RmsAtMost(frame, threshold)
      silentChunks == IF quiet THEN vad.silentChunks + 1 ELSE 0
      message ==
        IF quiet
          THEN IF Stops(silentChunks, vad.silence)
                 THEN <<[silent |-> TRUE]>> ELSE <<>>
          ELSE IF vad.silence THEN <<[silent |-> FALSE]>> ELSE <<>>
  IN /\ vad' = [vad EXCEPT !.silentChunks = silentChunks,
                           !.silence = IF message = <<>> THEN @
                                       ELSE message[1].silent]
     /\ port' = port \o message
     /\ vhist' = [ frames |-> vhist.frames + 1,
                   run    |-> IF RmsAtMost(frame, vad.parameter.value)
                                THEN vhist.run + 1 ELSE 0,
                   posted |-> vhist.posted \o message ]

\* the audio thread gives the processor its next frame
Frame(frame) == vhist.frames < MaxFrames /\ process(frame)

(***************************************************************************)
(* listen and transcribe (src/unnamed/part_001), the capture coordinator.  *)
(* The recorder is [state, segment, blobs]: the MediaRecorder's state, the *)
(* number of the segment it records or has recorded last (start() begins a *)
(* new segment), and the segments whose dataavailable event is queued and  *)
(* has not fired.  p is the position in div of the paragraph the variable  *)
(* holds, 0 while it is undefined.  A paragraph is [innerText, audio,      *)
(* segment, texts]: its text, the segment whose audio element is its       *)
(* child (0: none), the segment that was being recorded when it was        *)
(* created, and the segments whose transcriptions were written to it.      *)
(***************************************************************************)
\* p.innerText = "\U+1F442"
Ear == [kind |-> "ear", segment |-> 0]

\* the text the service returns for the audio of a segment
Text(segment) == [kind |-> "text", segment |-> segment]

\* what assigning undefined to innerText leaves: the string "undefined"
UndefinedText == [kind |-> "undefined", segment |-> 0]

\* how a request ends: a 2xx response with the transcription; a non-2xx response
\* with a JSON body (an error object, which has no text); a non-2xx response
\* whose body is not JSON; a request that fails
Outcomes == {"ok", "error-json", "error-body", "failed"}

ListenHistInit ==
  [ stopInactive   |-> FALSE,   \* stop() was called on a recorder not recording
    startRecording |-> FALSE,   \* start() was called on a recording recorder
    noParagraph    |-> FALSE,   \* a blob was submitted while p was undefined
    logged         |-> 0 ]      \* calls of console.error

\* listen() has run: new MediaRecorder(stream), let p, recorder.start()
ListenIdle ==
  /\ listening = [recorder |-> [state |-> "recording", segment |-> 1, blobs |-> <<>>],
                  p |-> 0]
  /\ div = <<>>
  /\ fetches = {}
  /\ lhist = ListenHistInit

\* recorder.stop(): the recorder becomes inactive and queues the dataavailable
\* event that carries the segment; on an inactive recorder nothing is recorded
recorderStop(recorder) ==
  IF recorder.state = "recording"
    THEN [recorder EXCEPT !.state = "inactive", !.blobs = Append(@, recorder.segment)]
    ELSE recorder

\* recorder.start(): a new segment
recorderStart(recorder) ==
  [recorder EXCEPT !.state = "recording", !.segment = @ + 1]

\* rms.port.onmessage
onmessage ==
  /\ port # <<>>
  /\ port' = Tail(port)
  /\ LET recorder == listening.recorder
     IN IF Head(port).silent
          THEN /\ listening' = [listening EXCEPT !.recorder = recorderStop(recorder)]
               /\ lhist' = [lhist EXCEPT !.stopInactive =
                                           @ \/ recorder.state # "recording"]
               /\ UNCHANGED div
          ELSE LET starts == recorder.state # "recording"
                   started == IF starts THEN recorderStart(recorder) ELSE recorder
               IN /\ div' = Append(div, [innerText |-> Ear, audio |-> 0,
                                         segment |-> started.segment,
                                         texts |-> {}])
                  /\ listening' = [recorder |-> started, p |-> Len(div) + 1]
                  /\ lhist' = [lhist EXCEPT !.startRecording =
                                              @ \/ (starts /\ recorder.state = "recording")]
  /\ UNCHANGED <<vad, vhist, fetches>>

\* recorder.ondataavailable: transcribe([event.data], p, audioContext) up to its
\* await of fetch
ondataavailable ==
  /\ listening.recorder.blobs # <<>>
  /\ listening' = [listening EXCEPT !.recorder.blobs = Tail(@)]
  /\ fetches' = fetches \cup
                  {[segment |-> Head(listening.recorder.blobs), p |-> listening.p]}
  /\ lhist' = [lhist EXCEPT !.noParagraph = @ \/ listening.p = 0]
  /\ UNCHANGED <<vadVars, div>>

\* transcribe from the settling of fetch on: response.json(), p.innerText =
\* result.text, p.appendChild(audioElement); the catch clause logs what is thrown
\* (by fetch, by response.json(), or by the assignment when p is undefined)
Response(request, outcome) ==
  /\ request \in fetches
  /\ fetches' = fetches \ {request}
  /\ IF outcome \in {"ok", "error-json"} /\ request.p # 0
       THEN /\ div' = [div EXCEPT ![request.p] =
                         [@ EXCEPT !.innerText = IF outcome = "ok"
                                                   THEN Text(request.segment)
                                                   ELSE UndefinedText,
                                   !.audio = request.segment,
                                   !.texts = IF outcome = "ok"
                                               THEN @ \cup {request.segment}
                                               ELSE @]]
            /\ UNCHANGED lhist
       ELSE /\ lhist' = [lhist EXCEPT !.logged = @ + 1]
            /\ UNCHANGED div
  /\ UNCHANGED <<vadVars, listening>>

(***************************************************************************)
(* speechRecognitionEventStream (src/unnamed/part_002): the handlers the   *)
(* setup function gives the native recognizer, and what they call on the   *)
(* stream.  A confidence is a number of thousandths.                       *)
(***************************************************************************)
\* a grading whose comparisons include the boundary
confidenceGradeInclusive(confidence) ==
  IF confidence >= 950 THEN "A+"
  ELSE IF confidence >= 900 THEN "A"
  ELSE IF confidence >= 800 THEN "B"
  ELSE IF confidence >= 700 THEN "C"
  ELSE IF confidence >= 600 THEN "D"
  ELSE "F"

\* confidenceGrade(confidence)
confidenceGrade(confidence) ==
  IF confidence > 950 THEN "A+"
  ELSE IF confidence > 900 THEN "A"
  ELSE IF confidence > 800 THEN "B"
  ELSE IF confidence > 700 THEN "C"
  ELSE IF confidence > 600 THEN "D"
  ELSE "F"

\* the results a native batch may hold: result.isFinal, result[0].transcript,
\* result[0].confidence
NativeResults ==
  { [isFinal |-> FALSE, transcript |-> <<"h","i">>, confidence |-> 500],
    [isFinal |-> TRUE, transcript |-> <<"h","i">>, confidence |-> 960] }

\* event.results of a native batch
ResultLists == UNION { [1..n -> NativeResults] : n \in 1..MaxResults }

\* error.error of a native error
NativeErrors == {"no-speech", "network", "aborted"}

\* next(value) and fail(error), as the handlers call them
NextCall(value) == [op |-> "next", value |-> value]

FailCall(error) == [op |-> "fail", error |-> error]

\* a slice that starts at the first result whatever the index
SliceFromStart(results, start) == results

\* Array.from(event.results).slice(event.resultIndex): the index counts from 0
Slice(results, start) == SubSeq(results, start + 1, Len(results))

\* the event the forEach callback pushes for one result; gensym() gives a new id
TranscriptEvent(result, timestamp, id) ==
  IF result.isFinal
    THEN FinalTranscriptEvent(result.transcript, confidenceGrade(result.confidence),
                              timestamp, id)
    ELSE InterimTranscriptEvent(result.transcript, timestamp, id)

\* no result is being graded
GradeIdle == grading = [confidence |-> 0, grade |-> "none"]

\* the grade of a final result: confidenceGrade(result[0].confidence)
GradeResult ==
  /\ grading.grade = "none"
  /\ grading' = [grading EXCEPT !.grade = confidenceGrade(grading.confidence)]

RecogHistInit ==
  [ native |-> 0,                   \* native events handled
    last   |-> [kind |-> "none"] ]  \* the native event the last step handled

\* every component outside the stream, the merge, the dictaphone and the
\* recognition event source is idle
AudioIdle == GradeIdle /\ VadIdle /\ ListenIdle

\* the state once setup has run: the handlers are set and recognition.start() called
RecogIdle ==
  /\ recognition = [starts |-> 1, syms |-> 0]
  /\ calls = <<>>
  /\ closed = FALSE
  /\ rhist = RecogHistInit

RecogInit == RecogIdle /\ AudioIdle

\* recognition.onresult
onresult(results, resultIndex) ==
  LET timestamp == now + 1
      fresh == Slice(results, resultIndex)
  IN /\ calls' = calls \o <<NextCall(ResultEvent(timestamp))>>
                   \o [k \in 1..Len(fresh) |->
                         NextCall(TranscriptEvent(fresh[k], timestamp,
                                                  recognition.syms + k))]
     /\ recognition' = [recognition EXCEPT !.syms = @ + Len(fresh)]
     /\ now' = timestamp
     /\ rhist' = [native |-> rhist.native + 1,
                  last |-> [kind |-> "result", results |-> results,
                            resultIndex |-> resultIndex]]
     /\ UNCHANGED closed

\* recognition.onerror
onerror(error) ==
  LET timestamp == now + 1
  IN /\ calls' = IF error = "no-speech"
                   THEN Append(calls, NextCall(NoSpeechEvent(timestamp)))
                   ELSE Append(calls, FailCall(error))
     /\ now' = timestamp
     /\ rhist' = [native |-> rhist.native + 1,
                  last |-> [kind |-> "error", error |-> error]]
     /\ UNCHANGED <<recognition, closed>>

\* recognition.onend
onend ==
  /\ recognition' = [recognition EXCEPT !.starts = @ + 1]
  /\ rhist' = [native |-> rhist.native + 1, last |-> [kind |-> "end"]]
  /\ UNCHANGED <<calls, closed, now>>

\* the consumer leaves its loop: return() on the stream
return ==
  /\ ~closed
  /\ closed' = TRUE
  /\ rhist' = [rhist EXCEPT !.last = [kind |-> "return"]]
  /\ UNCHANGED <<recognition, calls, now>>

(***************************************************************************)
(* Spec: one stream, one producer, one consumer that awaits each next()    *)
(* before it issues the following one.                                     *)
(***************************************************************************)
TheError == 99

Init == StreamInit /\ MergeInit /\ DictInit /\ RecogInit

Next ==
  \/ /\ hist.pushCount < MaxPush
     /\ next(hist.pushCount + 1)
     /\ UNCHANGED <<mergeVars, dictVars, recogVars, audioVars>>
  \/ /\ ~hist.stopCalled
     /\ stop
     /\ UNCHANGED <<mergeVars, dictVars, recogVars, audioVars>>
  \/ /\ ~hist.failCalled
     /\ fail(TheError)
     /\ UNCHANGED <<mergeVars, dictVars, recogVars, audioVars>>
  \/ /\ awaiting = 0
     /\ hist.nextCount < MaxNext
     /\ IteratorNext
     /\ UNCHANGED <<mergeVars, dictVars, recogVars, audioVars>>
  \/ /\ Await
     /\ UNCHANGED <<mergeVars, dictVars, recogVars, audioVars>>

Spec == Init /\ [][Next]_vars

(***************************************************************************)
(* MergeSpec: Stream.merge over NumSources sources and one consumer of the *)
(* merged sequence that awaits each next() before the following one.       *)
(***************************************************************************)
StreamIdle == ClassInit /\ awaiting = 0 /\ received = <<>> /\ hist = HistInit

MergeSpecInit == StreamIdle /\ MergeInit /\ DictInit /\ RecogInit

MergeSpecNext ==
  \/ \E i \in Sources : SourceValue(i) /\ UNCHANGED <<streamVars, dictVars, recogVars, audioVars>>
  \/ \E i \in Sources : SourceStop(i) /\ UNCHANGED <<streamVars, dictVars, recogVars, audioVars>>
  \/ \E i \in Sources : SourceFail(i) /\ UNCHANGED <<streamVars, dictVars, recogVars, audioVars>>
  \/ MayPull /\ MergeStart /\ UNCHANGED <<streamVars, dictVars, recogVars, audioVars>>
  \/ MayPull /\ MergeContinue /\ UNCHANGED <<streamVars, dictVars, recogVars, audioVars>>
  \/ MayPull /\ MergeAfterEnd /\ UNCHANGED <<streamVars, dictVars, recogVars, audioVars>>
  \/ MergeResume /\ UNCHANGED <<streamVars, dictVars, recogVars, audioVars>>

MergeSpec == MergeSpecInit /\ [][MergeSpecNext]_vars

(***************************************************************************)
(* DictSpec: the dictaphone over page loads: each load replays the log and *)
(* then handles live events.                                               *)
(***************************************************************************)
DictSpecInit == StreamIdle /\ MergeInit /\ DictInit /\ RecogInit

DictSpecNext ==
  \/ connectedCallback /\ UNCHANGED <<streamVars, mergeVars, recogVars, audioVars>>
  \/ LiveResult /\ UNCHANGED <<streamVars, mergeVars, recogVars, audioVars>>
  \/ LiveNoSpeech /\ UNCHANGED <<streamVars, mergeVars, recogVars, audioVars>>
  \/ LiveFinalTranscript /\ UNCHANGED <<streamVars, mergeVars, recogVars, audioVars>>
  \/ LiveInterimTranscript /\ UNCHANGED <<streamVars, mergeVars, recogVars, audioVars>>
  \/ Reload /\ UNCHANGED <<streamVars, mergeVars, recogVars, audioVars>>

DictSpec == DictSpecInit /\ [][DictSpecNext]_vars

(***************************************************************************)
(* TimingSpec: one session of the dictaphone, its live events arriving at  *)
(* finely graded gaps around the thresholds of insertDelay.                *)
(***************************************************************************)
TimingSpecNext ==
  \/ connectedCallback /\ UNCHANGED <<streamVars, mergeVars, recogVars, audioVars>>
  \/ TimedFinalTranscript /\ UNCHANGED <<streamVars, mergeVars, recogVars, audioVars>>
  \/ TimedInterimTranscript /\ UNCHANGED <<streamVars, mergeVars, recogVars, audioVars>>
  \/ TimedCommand /\ UNCHANGED <<streamVars, mergeVars, recogVars, audioVars>>

TimingSpec == DictSpecInit /\ [][TimingSpecNext]_vars

(***************************************************************************)
(* RecogSpec: the recognition event source: the native recognizer fires    *)
(* result batches, errors and ends, and the consumer may close the stream. *)
(***************************************************************************)
DictIdle == <<storage, final, interim, aside, dpc, dhist>>

MayFire == rhist.native < MaxNative

RecogSpecNext ==
  \/ /\ MayFire
     /\ \E results \in ResultLists : \E resultIndex \in 0..(Len(results) - 1) :
          onresult(results, resultIndex)
     /\ UNCHANGED <<streamVars, mergeVars, DictIdle, audioVars>>
  \/ /\ MayFire
     /\ \E error \in NativeErrors : onerror(error)
     /\ UNCHANGED <<streamVars, mergeVars, DictIdle, audioVars>>
  \/ MayFire /\ onend /\ UNCHANGED <<streamVars, mergeVars, DictIdle, audioVars>>
  \/ return /\ UNCHANGED <<streamVars, mergeVars, DictIdle, audioVars>>

RecogSpec == DictSpecInit /\ [][RecogSpecNext]_vars

(***************************************************************************)
(* GradeSpec: confidenceGrade applied to every confidence from 0 to 1.     *)
(***************************************************************************)
GradeSpecInit ==
  /\ StreamIdle /\ MergeInit /\ DictInit /\ RecogIdle /\ VadIdle /\ ListenIdle
  /\ grading \in [confidence : 0..MaxConfidence, grade : {"none"}]

GradeSpecNext ==
  /\ GradeResult
  /\ UNCHANGED <<streamVars, mergeVars, dictVars, recogVars, vadVars, listenVars>>

GradeSpec == GradeSpecInit /\ [][GradeSpecNext]_vars

(***************************************************************************)
(* VadSpec: one RmsProcessor, at every sample rate and with every          *)
(* threshold parameter, given up to MaxFrames frames.                      *)
(***************************************************************************)
VadSpecInit ==
  /\ StreamIdle /\ MergeInit /\ DictInit /\ RecogIdle /\ GradeIdle /\ ListenIdle
  /\ \E sampleRate \in SampleRates : \E parameter \in Parameters :
       vad = NewRmsProcessor(sampleRate, parameter)
  /\ port = <<>>
  /\ vhist = VadHistInit

VadSpecNext ==
  /\ \E frame \in Frames : Frame(frame)
  /\ UNCHANGED <<streamVars, mergeVars, dictVars, recogVars, gradeVars, listenVars>>

VadSpec == VadSpecInit /\ [][VadSpecNext]_vars

(***************************************************************************)
(* ListenSpec: the coordinator and its RmsProcessor, whose threshold       *)
(* listen() leaves unconfigured: frames, messages, dataavailable events    *)
(* and responses of the service in every interleaving.                     *)
(***************************************************************************)
ListenSpecInit ==
  /\ StreamIdle /\ MergeInit /\ DictInit /\ RecogIdle /\ GradeIdle /\ ListenIdle
  /\ \E sampleRate \in SampleRates :
       vad = NewRmsProcessor(sampleRate, [configured |-> FALSE, value |-> defaultValue])
  /\ port = <<>>
  /\ vhist = VadHistInit

ListenSpecNext ==
  \/ /\ \E frame \in Frames : Frame(frame)
     /\ UNCHANGED <<streamVars, mergeVars, dictVars, recogVars, gradeVars, listenVars>>
  \/ onmessage /\ UNCHANGED <<streamVars, mergeVars, dictVars, recogVars, gradeVars>>
  \/ ondataavailable
       /\ UNCHANGED <<streamVars, mergeVars, dictVars, recogVars, gradeVars>>
  \/ /\ \E request \in fetches : \E outcome \in Outcomes : Response(request, outcome)
     /\ UNCHANGED <<streamVars, mergeVars, dictVars, recogVars, gradeVars>>

ListenSpec == ListenSpecInit /\ [][ListenSpecNext]_vars

(***************************************************************************)
(* Properties of one stream (checked under Spec).                          *)
(***************************************************************************)
\* the values the consumer received, in the order it received them
ReceivedValues == SelectSeq(received, LAMBDA r : r.kind = "value")

\* the values 1..pushCount that are still on their way to the consumer
InTransit ==
  {buffer[i] : i \in 1..Len(buffer)} \cup
  (IF awaiting # 0 /\ promiseState[awaiting].st = "value"
     THEN {promiseState[awaiting].val} ELSE {})

\* C1: with a single consumer that awaits each next() before the following one,
\* the values received are pushed values, in push order, none more than once
\* (the producer pushes 1, 2, 3, ... so this is: strictly increasing).
C1_PushOrder ==
  /\ \A i \in 1..Len(ReceivedValues) : ReceivedValues[i].val \in 1..hist.pushCount
  /\ \A i, j \in 1..Len(ReceivedValues) :
       i < j => ReceivedValues[i].val < ReceivedValues[j].val

\* C1 witness: every pushed value arrived, some through the pending promise and
\* some through the buffer, for either stream
C1_Witness ==
  /\ Len(ReceivedValues) = MaxPush
  /\ hist.pushCount = MaxPush
  /\ hist.prePushes < MaxPush

\* C2: in Stream.create (no stop, no fail) no pushed value is lost, and the k
\* values pushed before the first next() are the results of the first k next()
C2_PrePushesDelivered ==
  (impl = "create" /\ ~hist.stopCalled /\ ~hist.failCalled) =>
    /\ 1..hist.pushCount =
         {ReceivedValues[i].val : i \in 1..Len(ReceivedValues)} \cup InTransit
    /\ \A k \in 1..Len(received) :
         k <= hist.prePushes => received[k] = [kind |-> "value", val |-> k]

\* C3: once stop() was called (and fail() was not), stop() did not throw and no
\* next() stays pending: the consumer's await holds a buffered value or done
C3_StopExhausts ==
  (hist.stopCalled /\ ~hist.failCalled) =>
    /\ ~hist.threw
    /\ awaiting # 0 => promiseState[awaiting].st \in {"value", "done"}

\* C4: once fail(error) was called (and stop() was not), fail did not throw and
\* no next() stays pending or ends done: the consumer's await holds a value
\* pushed earlier or the error
C4_FailReaches ==
  (hist.failCalled /\ ~hist.stopCalled) =>
    /\ ~hist.threw
    /\ awaiting # 0 => promiseState[awaiting].st \in {"value", "error"}

\* C5: after the consumer has observed the error, it receives no value
C5_FailTerminal ==
  \A i, j \in 1..Len(received) :
    (i < j /\ received[i].kind = "error") => received[j].kind # "value"

(***************************************************************************)
(* Properties of Stream.merge (checked under MergeSpec).                   *)
(***************************************************************************)
\* the values the merged sequence yielded, in order
OutValues ==
  LET vs == SelectSeq(out, LAMBDA r : r.kind = "value")
  IN [k \in 1..Len(vs) |-> vs[k].val]

\* the source of a value
SourceOf(v) == v \div 10

\* the values source i has produced
ProducedBy(i) == {10 * i + k : k \in 1..iterators[i].produced}

\* the values merge still holds: resolved into an entry of `promises`, or waiting
\* in the buffer of their source for the next pull
HeldValues ==
  {promises[j].val : j \in {k \in 1..Len(promises) : promises[k].st = "value"}}
  \cup UNION {{iterators[i].buffer[k] : k \in 1..Len(iterators[i].buffer)} :
                i \in Sources}

\* when the pull of value v resolved, as a position in mhist.settled
SettledAt(v) == CHOOSE k \in 1..Len(mhist.settled) : mhist.settled[k] = v

\* C6: merge yields every value of every source exactly once and in the source's
\* own order, whichever sources have finished: no value twice, the values of one
\* source in increasing order, and (while no source has failed) every produced
\* value either yielded already or still held for a later yield
C6_MergeExactlyOnce ==
  /\ \A p, q \in 1..Len(OutValues) : p < q => OutValues[p] # OutValues[q]
  /\ \A p, q \in 1..Len(OutValues) :
       (p < q /\ SourceOf(OutValues[p]) = SourceOf(OutValues[q]))
          => OutValues[p] < OutValues[q]
  /\ mhist.failed = {} =>
       \A i \in Sources : \A v \in ProducedBy(i) :
          v \in HeldValues \/ \E p \in 1..Len(OutValues) : OutValues[p] = v

\* C7: the merged sequence finishes exactly when all sources have finished: it
\* returns (done, no error) only when every source has ended, and once merge
\* has read the done result of every source the generator has returned
C7_MergeFinishes ==
  /\ (gen = "done" /\ \A k \in 1..Len(out) : out[k].kind # "error")
        => \A i \in Sources : iterators[i].ended = "done"
  /\ mhist.doneSeen = Sources => gen = "done"

\* C8: values are yielded in the order their pulls resolved, across sources (stated
\* for the runs in which no source has finished or failed)
C8_MergeOrder ==
  (\A i \in Sources : iterators[i].ended = "no") =>
    \A p, q \in 1..Len(OutValues) :
      p < q => SettledAt(OutValues[p]) < SettledAt(OutValues[q])

\* C9: a source's failure reaches the consumer of the merged sequence and ends it:
\* no value is received after the error, and while the error has not been
\* received the failure of a source is still on its way (a rejected entry of
\* `promises`)
C9_MergeFailPropagates ==
  /\ \A p, q \in 1..Len(out) :
       (p < q /\ out[p].kind = "error") => out[q].kind # "value"
  /\ \A i \in mhist.failed :
       \/ \E k \in 1..Len(out) : out[k].kind = "error"
       \/ \E j \in 1..Len(promises) :
            promises[j].st = "error" /\ promises[j].source = i

(***************************************************************************)
(* Properties of the dictaphone (checked under DictSpec).                  *)
(***************************************************************************)
\* C10: a live event is saved before its handler runs, so in the live loop the
\* persisted log is the log found at startup followed by the live events handled
\* since the last reset, each once and in handling order; a reset empties it
\* (the reset command itself included)
C10_LogIsStartupThenLive ==
  dpc = "live" =>
    LoadEvents(storage) = dhist.startup \o JSONStringify(dhist.handled)

\* C10 witness: a session that found a log at startup has handled a live event
C10_Witness ==
  /\ dpc = "live"
  /\ Len(dhist.startup) >= 1
  /\ Len(dhist.handled) >= 1

\* C11: a replay (loadAndHandleEvents) never appends to the persisted log: the log
\* after it is no longer than before and holds no entry that was not there
C11_ReplayNeverAppends ==
  [][ (dpc = "new" /\ dpc' = "live") =>
        /\ Len(LoadEvents(storage')) <= Len(LoadEvents(storage))
        /\ \A k \in 1..Len(LoadEvents(storage')) :
             \E j \in 1..Len(LoadEvents(storage)) :
               LoadEvents(storage')[k] = LoadEvents(storage)[j] ]_vars

\* C11 witness: a reloaded page has just replayed a log of two events
C11_Witness ==
  /\ dpc = "live"
  /\ dhist.reloads >= 1
  /\ dhist.handled = <<>>
  /\ Len(dhist.startup) >= 2
  /\ LoadEvents(storage) = dhist.startup

\* the transcript a replay of the persisted log builds in a new component
Replayed == HandleAll(DictState(storage, <<>>, <<>>, NoTime), LoadEvents(storage))

IsUtterance(child) == child.kind = "utterance"

\* the finalized utterances of a transcript: their text and grade, in order
Finalized(fin) ==
  LET us == SelectSeq(fin, IsUtterance)
  IN [k \in 1..Len(us) |-> [text |-> us[k].text, grade |-> us[k].grade]]

\* C12: during a live run, a replay of the log the run has left behind, from an
\* empty transcript, builds the finalized utterances (text and grade, in order)
\* the live run shows
C12_ReplayFinalized ==
  dpc = "live" => Finalized(Replayed.final) = Finalized(final)

\* C12 witness: a live run shows two utterances of different grades
C12_Witness ==
  /\ dpc = "live"
  /\ Len(Finalized(final)) = 2
  /\ Finalized(final)[1].grade # Finalized(final)[2].grade
  /\ dhist.last # NoEvent

\* C13: during a live run, a replay of the log the run has left behind, from an
\* empty transcript, builds the whole rendered state of the live run: the
\* utterances with the delay markers between them, the interim text, and the
\* timestamp the aside holds for measuring the next gap; also after a reset
C13_ReplayRendered ==
  dpc = "live" =>
    /\ Replayed.final = final
    /\ Replayed.interim = interim
    /\ Replayed.aside = aside

(***************************************************************************)
(* Properties of insertDelay (checked under TimingSpec).                   *)
(***************************************************************************)
\* a step that handles one live event
LiveStep == dhist'.events = dhist.events + 1

\* C14: every run of insertDelay(T) leaves the aside holding T, whichever branch
\* it takes, the one for a gap below the short threshold included
C14_AsideIsTimestamp ==
  [][ (LiveStep /\ CallsInsertDelay(interim, dhist'.last)) =>
        aside' = dhist'.last.timestamp ]_vars

\* C15: when the last rendered element is an utterance and a new utterance comes
\* delay seconds after the timestamp of the aside, insertDelay inserts nothing for
\* delay < 3 (the short threshold), floor(delay) dots for 3 <= delay < 20, and a
\* hard separator for every delay >= 20 (the long threshold, the gap of exactly
\* 20 s included), which carries a date and a time only when delay > 60
C15_DelayMarkers ==
  [][ ( /\ LiveStep
        /\ dhist'.last.type = "FinalTranscript"
        /\ ~IsCommand(dhist'.last)
        /\ LastIsNotDelay(final)
        /\ aside # NoTime ) =>
      LET delay == dhist'.last.timestamp - aside   \* in half seconds
          utterance == Utterance(dhist'.last)
      IN /\ delay < 2 * 3 => final' = final \o <<utterance>>
         /\ (2 * 3 <= delay /\ delay < 2 * 20) =>
              final' = final \o <<Dots(delay \div 2), utterance>>
         /\ delay >= 2 * 20 =>
              final' = final \o <<Divider(delay > 2 * 60), utterance>> ]_vars

(***************************************************************************)
(* Properties of the interim text and of the reset command (DictSpec).     *)
(***************************************************************************)
\* the events the component has handled since the last reset: the replayed log
\* and then the live ones
Received == dhist.startup \o dhist.handled

\* the transcripts, joined in order, of the InterimTranscript events that follow
\* the last Result or FinalTranscript event
RECURSIVE InterimSince(_)
InterimSince(events) ==
  IF events = <<>> THEN <<>>
  ELSE LET event == events[Len(events)]
           before == SubSeq(events, 1, Len(events) - 1)
       IN CASE event.type = "InterimTranscript" ->
                 InterimSince(before) \o event.transcript
            [] event.type \in {"Result", "FinalTranscript"} -> <<>>
            [] OTHER -> InterimSince(before)

IsNotSpace(c) == c # " "

Squeeze(text) == SelectSeq(text, IsNotSpace)

\* the log is empty and so are the finalized utterances and the interim text
Cleared ==
  /\ LoadEvents(storage') = <<>>
  /\ final' = <<>>
  /\ interim' = <<>>

\* C17 as stated: a live FinalTranscript that matches "reset bro", whatever its
\* case and spacing, empties the log, the utterances and the interim text, and
\* renders no utterance for itself
C17_ResetBro ==
  [][ ( /\ LiveStep
        /\ dhist'.last.type = "FinalTranscript"
        /\ Squeeze(ToLowerCase(dhist'.last.transcript)) = Squeeze(ResetBro) ) =>
      Cleared ]_vars

\* C17 as amended: a live FinalTranscript that is "hard reset please", whatever
\* its case and the spaces around it, empties the log, the utterances and the
\* interim text, and renders no utterance for itself
C17_HardResetPlease ==
  [][ ( /\ LiveStep
        /\ dhist'.last.type = "FinalTranscript"
        /\ dhist'.last.transcript \in {HardResetPlease, HardResetShouted} ) =>
      Cleared ]_vars

\* C17 witness: the command, padded and in capitals, has been handled as the
\* second live event and has left everything empty
C17_Witness ==
  /\ dpc = "live"
  /\ dhist.events = 2
  /\ dhist.last.type = "FinalTranscript"
  /\ dhist.last.transcript = HardResetShouted
  /\ ~storage.present
  /\ final = <<>>

(***************************************************************************)
(* Properties of the recognition event source (checked under RecogSpec).   *)
(***************************************************************************)
\* a step that handles one native event
NativeStep == rhist'.native = rhist.native + 1

\* C18: for a native result batch the source pushes one Result event and then one
\* event for each result at an index >= resultIndex, in index order, typed by the
\* result's isFinal flag and carrying the batch's timestamp; nothing for the
\* results below resultIndex, and nothing else
C18_ResultBatch ==
  [][ (NativeStep /\ rhist'.last.kind = "result") =>
      LET results == rhist'.last.results
          resultIndex == rhist'.last.resultIndex
          old == Len(calls)
          first == calls'[old + 1]
      IN /\ Len(calls') = old + 1 + (Len(results) - resultIndex)
         /\ SubSeq(calls', 1, old) = calls
         /\ first.op = "next"
         /\ first.value.type = "Result"
         /\ \A k \in 1..(Len(results) - resultIndex) :
              LET result == results[resultIndex + k]
                  call == calls'[old + 1 + k]
              IN /\ call.op = "next"
                 /\ call.value.type = IF result.isFinal THEN "FinalTranscript"
                                                        ELSE "InterimTranscript"
                 /\ call.value.transcript = result.transcript
                 /\ call.value.timestamp = first.value.timestamp ]_vars

\* C18 witness: a batch of two results with resultIndex 1 has been handled: a
\* Result event and one event for the second result were pushed
C18_Witness ==
  /\ rhist.last.kind = "result"
  /\ Len(rhist.last.results) = 2
  /\ rhist.last.resultIndex = 1
  /\ rhist.native = 1
  /\ Len(calls) = 2
  /\ calls[2].value.type = "FinalTranscript"

\* C19: a native error is classified three ways: no-speech pushes a NoSpeech
\* event and network pushes a NetworkDown event, neither failing the sequence;
\* any other error fails the sequence with that error
C19_ErrorClasses ==
  [][ (NativeStep /\ rhist'.last.kind = "error") =>
      LET error == rhist'.last.error
          call == calls'[Len(calls')]
      IN /\ Len(calls') = Len(calls) + 1
         /\ error = "no-speech" => (call.op = "next" /\ call.value.type = "NoSpeech")
         /\ error = "network" => (call.op = "next" /\ call.value.type = "NetworkDown")
         /\ error \notin {"no-speech", "network"} =>
              (call.op = "fail" /\ call.error = error) ]_vars

\* C20: once the consumer has closed the sequence with return(), a native end
\* of session does not start the recognizer again
C20_NoRestartWhenClosed ==
  [][ (NativeStep /\ rhist'.last.kind = "end" /\ closed) =>
        recognition'.starts = recognition.starts ]_vars

(***************************************************************************)
(* Properties of confidenceGrade (checked under GradeSpec).                *)
(***************************************************************************)
\* C21: a confidence c in [0, 1] is graded A+ when c > 0.95, A when
\* 0.90 < c <= 0.95, B when 0.80 < c <= 0.90, C when 0.70 < c <= 0.80, D when
\* 0.60 < c <= 0.70 and F when c <= 0.60: a boundary value falls into the lower
\* grade, and the result is one of the six grades
C21_ConfidenceGrade ==
  grading.grade # "none" =>
    /\ grading.grade \in {"A+", "A", "B", "C", "D", "F"}
    /\ grading.grade = "A+" <=> grading.confidence > 950
    /\ grading.grade = "A" <=> (900 < grading.confidence /\ grading.confidence <= 950)
    /\ grading.grade = "B" <=> (800 < grading.confidence /\ grading.confidence <= 900)
    /\ grading.grade = "C" <=> (700 < grading.confidence /\ grading.confidence <= 800)
    /\ grading.grade = "D" <=> (600 < grading.confidence /\ grading.confidence <= 700)
    /\ grading.grade = "F" <=> grading.confidence <= 600

\* C21 witness: the boundary 0.95 has been graded A
C21_Witness == grading.confidence = 950 /\ grading.grade = "A"
(***************************************************************************)
(* Properties of the voice activity detector (checked under VadSpec).      *)
(***************************************************************************)
\* the step has posted a message whose `silent` is the given value
Posted(silent) ==
  /\ Len(vhist'.posted) = Len(vhist.posted) + 1
  /\ vhist'.posted[Len(vhist'.posted)].silent = silent

\* C22: with N = ceil(1 s * sampleRate / frameSize) > 1, once speech has started
\* a run of fewer than N consecutive below-threshold frames followed by an
\* above-threshold frame emits no speech-stopped, a run of N consecutive
\* below-threshold frames emits speech-stopped exactly once, at its N-th frame,
\* and any above-threshold frame resets the run counter to zero
C22_Hysteresis ==
  [][ \A frame \in Frames :
        (Frame(frame) /\ SilenceWindow > 1) =>
          /\ ~RmsAtMost(frame, vad.parameter.value) =>
               (vad'.silentChunks = 0 /\ ~Posted(TRUE))
          /\ (RmsAtMost(frame, vad.parameter.value) /\ vhist.posted # <<>>) =>
               (Posted(TRUE) <=> vhist'.run = SilenceWindow) ]_vars

\* C23: the detector emits an event only when its speaking/silent state changes;
\* the events alternate speech-started, speech-stopped, ..., the first being
\* speech-started (leading silence of any length emits nothing), and an
\* above-threshold frame received while silent emits speech-started on that
\* same frame
C23_Alternation ==
  [][ \A frame \in Frames :
        Frame(frame) =>
          /\ vhist'.posted # vhist.posted <=> vad'.silence # vad.silence
          /\ vhist'.posted # vhist.posted =>
               Posted(Len(vhist.posted) % 2 = 1)
          /\ (RmsAtMost(frame, vad.parameter.value) /\ vhist.posted = <<>>) =>
               vhist'.posted = <<>>
          /\ (~RmsAtMost(frame, vad.parameter.value) /\ vad.silence) =>
               Posted(FALSE) ]_vars

\* C26: for every configured value of the threshold parameter in [0, 1], 0
\* included, a frame is counted as silent exactly when its root mean square is at
\* most that value; the default 0.1 is used only when no threshold is configured
C26_ConfiguredThreshold ==
  [][ \A frame \in Frames :
        Frame(frame) =>
          ( vad'.silentChunks = vad.silentChunks + 1
              <=> RmsAtMost(frame, vad.parameter.value) ) ]_vars
(***************************************************************************)
(* Properties of the capture coordinator (checked under ListenSpec).       *)
(***************************************************************************)
\* C24: the transcription of a captured segment is written to the paragraph
\* created at that segment's own speech-started transition, in every
\* interleaving of messages, dataavailable events and responses: no paragraph
\* holds the text of a segment other than its own, and none has received the
\* texts of two segments
C24_OwnParagraph ==
  \A k \in 1..Len(div) :
     /\ div[k].texts \subseteq {div[k].segment}
     /\ Cardinality(div[k].texts) <= 1

\* C25: when the service answers with a non-2xx response or the request fails,
\* the failure is only logged and the paragraph of the segment keeps the content
\* it had before the request
C25_FailureOnlyLogged ==
  [][ \A request \in fetches : \A outcome \in Outcomes \ {"ok"} :
        Response(request, outcome) =>
          (div' = div /\ lhist'.logged = lhist.logged + 1) ]_vars

\* C27: for every sequence of frames recorder.stop() is only called while the
\* recorder is recording, recorder.start() only while it is not recording, and a
\* paragraph has been created before a blob is submitted for transcription
C27_RecorderCalls ==
  /\ ~lhist.stopInactive
  /\ ~lhist.startRecording
  /\ ~lhist.noParagraph
  /\ \A request \in fetches : request.p \in 1..Len(div)

\* C27 witness: the recorder has been stopped and started again by the handler,
\* and the blob of its first segment has been submitted
C27_Witness ==
  /\ listening.recorder.segment = 2
  /\ listening.recorder.state = "recording"
  /\ \E request \in fetches : request.segment = 1
(***************************************************************************)
(* Properties of the delay markers in .final (checked under TimingSpec).   *)
(***************************************************************************)
\* a child of .final with class delay: the dots or the hard separator
IsDelay(child) == child.kind \in {"dots", "divider"}

\* C28: after any sequence of events the finalized list does not begin with a
\* delay marker and holds no two adjacent delay markers: a marker is only ever
\* inserted directly after an utterance
C28_MarkerAfterUtterance ==
  \A k \in 1..Len(final) :
     IsDelay(final[k]) => (k > 1 /\ IsUtterance(final[k - 1]))

\* C28 witness: an interim chunk put a marker after the first utterance, and the
\* final transcript that followed found the marker last and added none
C28_Witness ==
  /\ Len(final) = 3
  /\ IsUtterance(final[1]) /\ IsDelay(final[2]) /\ IsUtterance(final[3])
  /\ dhist.last.type = "FinalTranscript"
  /\ dhist.last.timestamp - dhist.handled[2].timestamp >= 2 * 3

====
